---------------------------- MODULE Spec2Model ----------------------------
(***************************************************************************)
(* A model of models/qmodules.py: the learnable mixed-precision Quantizer, *)
(* the quantized operator wrappers, initialize_Q and its calibration pass  *)
(* (sample_activation_size), the BOPs cost model and the noise_quant       *)
(* autograd function.                                                      *)
(*                                                                         *)
(* Numbers.  TLC has integers only, so every real quantity is kept in a    *)
(* fixed-point unit that is stated where the quantity is defined:          *)
(*   - a bitwidth logit is kept in tenths (25 is the logit 2.5);           *)
(*   - a sigmoid value is kept in millionths;                              *)
(*   - a bitwidth is kept in units of 1/2000000 bit ("bit units");         *)
(*   - activation minima and offsets are kept in units of 1/10000;         *)
(*   - weights and scale logits are kept in whole units;                   *)
(*   - a Python float is a record [hi, lo, e] holding the 53-bit           *)
(*     significand hi * 2^29 + lo and the binary exponent e.               *)
(***************************************************************************)
EXTENDS Integers, Sequences, FiniteSets, TLC

VARIABLES
    \* ---- the model under training (specification Spec) ----
    training,       \* [Modules -> BOOLEAN]: nn.Module.training of each module
    requires_grad,  \* [Wrappers -> [QKinds -> BOOLEAN]]: _bitwidth.requires_grad
    bitlogit,       \* [Wrappers -> [QKinds -> Logits]]: _bitwidth, in tenths
    w_alpha,        \* [Wrappers -> Int]: w_quant._alpha (the scale logit)
    a_offset,       \* [Wrappers -> offset]: a_quant.offset
    shape,          \* [Wrappers -> NoShape or the shape metadata record]
    hooks,          \* [Wrappers -> Nat]: the passes whose forward_hook and
                    \* forward_off_hook are registered on the module
    weight,         \* [Wrappers -> Seq(Int)]: the weight tensor, flattened
    sample,         \* the sample input of the running calibration pass
    pc,             \* "idle", "calib" (pass running) or "exited"
    fwd_i,          \* index of the next module of the running forward pass
    pre,            \* the state recorded when initialize_Q was entered
    last_init,      \* how the last initialize_Q call ended
    last_quant,     \* [Wrappers -> [QKinds -> result of the _quant call of
                    \* the running forward pass]]
    last_bops,      \* result of the bops_loss or print_bitwidth call just made
    calibrated,     \* TRUE once an initialize_Q(mode='first') has returned
    \* ---- Quantizer.__init__ (specification SpecCtor) ----
    ctor,
    \* ---- the group-count search (specification SpecCal) ----
    cal,
    \* ---- noise_quant and the random generators (specification SpecRng) ----
    rng

lifeVars == <<training, requires_grad, bitlogit, w_alpha, a_offset, shape,
              hooks, weight, sample, pc, fwd_i, pre, last_init, last_quant,
              last_bops, calibrated>>
\* the variables of the other specifications
parked == <<ctor, cal, rng>>
vars == <<training, requires_grad, bitlogit, w_alpha, a_offset, shape,
          hooks, weight, sample, pc, fwd_i, pre, last_init, last_quant,
          last_bops, calibrated, ctor, cal, rng>>

(***************************************************************************)
(* Helpers on integers and sequences.                                      *)
(***************************************************************************)
Abs(x) == IF x < 0 THEN -x ELSE x

RECURSIVE Pow2(_)
Pow2(n) == IF n = 0 THEN 1 ELSE 2 * Pow2(n - 1)

RECURSIVE SeqSum(_)
SeqSum(s) == IF s = <<>> THEN 0 ELSE Head(s) + SeqSum(Tail(s))

SeqMin(s) == CHOOSE x \in {s[i] : i \in DOMAIN s} : \A i \in DOMAIN s : x <= s[i]

SeqMax(s) == CHOOSE x \in {s[i] : i \in DOMAIN s} : \A i \in DOMAIN s : x >= s[i]

\* s[i0:i1] of Python, 0-based and half-open
Slice(s, i0, i1) == [k \in 1..(i1 - i0) |-> s[i0 + k]]

\* torch.round: round to nearest, ties to even; num / den with den > 0
RoundHalfEven(num, den) ==
    LET q == num \div den
        r == num % den
    IN  IF 2 * r < den THEN q
        ELSE IF 2 * r > den THEN q + 1
        ELSE IF q % 2 = 0 THEN q ELSE q + 1

(***************************************************************************)
(* Quantizer.bitwidth, hard_quant and the level count of Quantizer._quant. *)
(***************************************************************************)
\* The logits the model lets a bitwidth logit take, in tenths.  -1000 and
\* 1000 are logits at which the single-precision sigmoid saturates.
Logits == {-1000, -25, 0, 25, 1000}

\* torch.sigmoid, in millionths, on Logits (a saturated value is exactly 0
\* or 1000000: 2.0 + sigmoid * 6.5 is then exactly 2.0 or 8.5 in float32)
Sigmoid(logit) ==
    CASE logit = -1000 -> 0
      [] logit = -25   -> 75858
      [] logit = 0     -> 500000
      [] logit = 25    -> 924142
      [] logit = 1000  -> 1000000

\* one bit, in bit units
BitUnit == 2 * 1000000

\* _logit2bit: 2.0 + torch.sigmoid(logit) * r with r = 6.5, in bit units
logit2bit(logit) == 2 * BitUnit + 13 * Sigmoid(logit)

\* a variant of bitwidth_round: ties rounded away from zero
bitwidth_round_half_up(b) == ((2 * b + BitUnit) \div (2 * BitUnit)) * BitUnit

\* Tensor.round_ / Tensor.round on a bitwidth in bit units
bitwidth_round(b) == RoundHalfEven(b, BitUnit) * BitUnit

\* a variant of bitwidth: the frozen test dropped, never rounded
bitwidth_never_rounded(rg, logit) == logit2bit(logit)

\* Quantizer.bitwidth of a quantizer whose _bitwidth.requires_grad is rg
bitwidth(rg, logit) ==
    IF rg THEN logit2bit(logit) ELSE bitwidth_round(logit2bit(logit))

\* hard_quant: x.round() in value (the gradient is that of x)
hard_quant(b) == bitwidth_round(b)

\* a variant of quant_branch: the frozen flag is not consulted
quant_branch_training_only(is_training, rg) ==
    IF is_training THEN "noise" ELSE "hard"

\* the branch of Quantizer._quant
quant_branch(is_training, rg) ==
    IF is_training /\ rg THEN "noise" ELSE "hard"

\* Quantizer._quant as far as the bitwidth goes: the rounded bitwidth, the
\* level count n_lv = 2^bitwidth - 1 and the branch taken.  The tensor
\* arithmetic on x is not modelled.
_quant(is_training, rg, logit) ==
    LET bw == hard_quant(bitwidth(rg, logit))
    IN  [bits   |-> bw \div BitUnit,
         exact  |-> bw % BitUnit = 0,
         n_lv   |-> Pow2(bw \div BitUnit) - 1,
         branch |-> quant_branch(is_training, rg)]

NoQuant == [bits |-> 0, exact |-> TRUE, n_lv |-> 0, branch |-> "none"]

(***************************************************************************)
(* Quantizer.__init__.  An activation tag (act_func) is a sequence of      *)
(* one-character strings; None is the value NoneTag.                       *)
(***************************************************************************)
NoneTag == <<"<None>">>

Str_relu == <<"r", "e", "l", "u">>
Str_swish == <<"s", "w", "i", "s", "h">>

\* the activation tags the model constructs quantizers with
Tags ==
    { Str_relu,
      <<"r", "e", "l", "u", "1">>,
      <<"r", "e", "l", "u", "6">>,
      <<"R", "e", "L", "U">>,
      Str_swish,
      <<"h", "s", "w", "i", "s", "h">>,
      <<"h", "-", "s", "w", "i", "s", "h">>,
      <<"H", "s", "w", "i", "s", "h">>,
      <<"h", "a", "r", "d", "s", "w", "i", "s", "h">>,
      <<"R", "e", "L", "U", "6">>,
      <<"e", "l", "u">>,
      <<"l", "e", "a", "k", "y", "r", "e", "l", "u">>,
      <<"p", "r", "e", "l", "u">>,
      <<"g", "e", "l", "u">>,
      <<"s", "i", "g", "m", "o", "i", "d">>,
      <<"t", "a", "n", "h">>,
      <<"m", "i", "s", "h">>,
      <<"s", "i", "l", "u">>,
      <<>> }

\* str.lower on one character (the upper-case letters that occur in Tags)
LowerChar(c) ==
    CASE c = "R" -> "r"
      [] c = "L" -> "l"
      [] c = "U" -> "u"
      [] c = "H" -> "h"
      [] OTHER   -> c

\* str.lower
Lower(s) == [i \in DOMAIN s |-> LowerChar(s[i])]

\* `sub in s` of Python strings
Contains(s, sub) ==
    \E i \in 0..(Len(s) - Len(sub)) : \A k \in 1..Len(sub) : s[i + k] = sub[k]

\* s[:2]
Prefix2(s) == SubSeq(s, 1, IF Len(s) < 2 THEN Len(s) ELSE 2)

\* s[-1].isdigit()
LastIsDigit(s) ==
    Len(s) > 0 /\ s[Len(s)] \in {"0", "1", "2", "3", "4", "5", "6", "7", "8", "9"}

\* The Python values self.offset takes.  A float is the double
\* (hi * 2^29 + lo) * 2^(e - 53); zero has hi = lo = e = 0.
PyNone == [kind |-> "None", hi |-> 0, lo |-> 0, e |-> 0]
PyInt0 == [kind |-> "int", hi |-> 0, lo |-> 0, e |-> 0]
\* the literal 0.3125 = 0x1.4p-2
Py_hswish == [kind |-> "float", hi |-> 10485760, lo |-> 0, e |-> -1]
\* the literal 0.2784645427610738 = 0x1.1d25cf210482ep-2
Py_swish == [kind |-> "float", hi |-> 9343719, lo |-> 303056942, e |-> -1]

\* torch.tensor(v, device='cuda') on a Python number: an int becomes an
\* int64 tensor, a float a float32 tensor: the significand is rounded to 24
\* bits, to nearest, ties to even (no case here carries into the exponent)
torch_tensor(v) ==
    IF v.kind = "int" THEN [v EXCEPT !.kind = "tensor_int64"]
    ELSE LET half == Pow2(28)
             up == v.lo > half \/ (v.lo = half /\ v.hi % 2 = 1)
         IN  [kind |-> "tensor_float32",
              hi |-> IF up THEN v.hi + 1 ELSE v.hi,
              lo |-> 0,
              e |-> v.e]

\* a variant of offset_of: an unrecognized tag falls back to offset 0
offset_of_default(act_func) ==
    IF Contains(act_func, Str_relu) THEN [ok |-> TRUE, v |-> PyInt0]
    ELSE IF Contains(act_func, Str_swish)
    THEN IF Contains(Prefix2(act_func), <<"h">>)
         THEN [ok |-> TRUE, v |-> Py_hswish]
         ELSE [ok |-> TRUE, v |-> Py_swish]
    ELSE [ok |-> TRUE, v |-> PyInt0]

\* the if/elif chain of Quantizer.__init__ on the lower-cased tag:
\* the offset, or the raise of NotImplementedError
offset_of(act_func) ==
    IF Contains(act_func, Str_relu) THEN [ok |-> TRUE, v |-> PyInt0]
    ELSE IF Contains(act_func, Str_swish)
    THEN IF Contains(Prefix2(act_func), <<"h">>)
         THEN [ok |-> TRUE, v |-> Py_hswish]
         ELSE [ok |-> TRUE, v |-> Py_swish]
    ELSE [ok |-> FALSE, v |-> PyNone]

\* init_alpha of Quantizer.__init__: the value read from a trailing digit
\* is overwritten by 6.0
init_alpha_of(symm, act_func) ==
    IF symm THEN 1
    ELSE IF Contains(act_func, Str_relu) \/ Contains(act_func, Str_swish)
    THEN LET a1 == IF LastIsDigit(act_func) THEN 1 ELSE 0
         IN  6
    ELSE 0

\* the initial value of _bitwidth, in tenths
InitLogit == 25

\* Quantizer.__init__ as a whole: the quantizer, or the error raised
Quantizer(symm, act_func) ==
    IF symm
    THEN [ok |-> TRUE, error |-> "", symm |-> TRUE, offset |-> PyNone,
          _bitwidth |-> InitLogit, requires_grad |-> TRUE,
          _alpha |-> init_alpha_of(TRUE, act_func)]
    ELSE IF act_func = NoneTag
    THEN [ok |-> FALSE, error |-> "AttributeError", symm |-> FALSE,
          offset |-> PyNone, _bitwidth |-> 0, requires_grad |-> FALSE,
          _alpha |-> 0]
    ELSE LET t == Lower(act_func)
             o == offset_of(t)
         IN  IF o.ok
             THEN [ok |-> TRUE, error |-> "", symm |-> FALSE,
                   offset |-> torch_tensor(o.v),
                   _bitwidth |-> InitLogit, requires_grad |-> TRUE,
                   _alpha |-> init_alpha_of(FALSE, t)]
             ELSE [ok |-> FALSE, error |-> "NotImplementedError",
                   symm |-> FALSE, offset |-> PyNone, _bitwidth |-> 0,
                   requires_grad |-> FALSE, _alpha |-> 0]

\* F.softplus, in thousandths, on the whole scale logits -6 .. 7
Softplus(x) ==
    CASE x = -6 -> 2    [] x = -5 -> 7    [] x = -4 -> 18   [] x = -3 -> 49
      [] x = -2 -> 127  [] x = -1 -> 313  [] x = 0 -> 693   [] x = 1 -> 1313
      [] x = 2 -> 2127  [] x = 3 -> 3049  [] x = 4 -> 4018  [] x = 5 -> 5007
      [] x = 6 -> 6002  [] x = 7 -> 7001

\* Quantizer.alpha: the scale of a quantizer whose _alpha is a
alpha(a) == Softplus(a)

(***************************************************************************)
(* The offset search of sample_activation_size: optimal_i, group_err and   *)
(* forward_off_hook.  Minima, offsets and errors are in units of 1/10000.  *)
(* A mean over the channels is kept as the sum of the channels' errors:    *)
(* every mean that the code compares is over the same number of channels.  *)
(* The arithmetic is exact; single-precision rounding is not modelled.     *)
(***************************************************************************)
\* the value 100 that min_err starts from, in units of 1/10000
Hundred == 100 * 10000

RECURSIVE optimal_i_loop(_, _, _, _, _)
optimal_i_loop(target, unit, i, min_err, min_err_i) ==
    IF i > 4 THEN min_err_i
    ELSE LET err == Abs(target - unit * i)
         IN  IF min_err > err
             THEN optimal_i_loop(target, unit, i + 1, err, i)
             ELSE optimal_i_loop(target, unit, i + 1, min_err, min_err_i)

\* optimal_i: the i of range(0, 5) found by the loop, or -1 where the code
\* prints 'could not find optimal `i`' and calls exit()
optimal_i(target, unit) == optimal_i_loop(target, unit, 0, Hundred, -1)

\* the bounds [i0, i1) of group i of g groups over arr_len channels
group_lo(arr_len, g, i) == i * (arr_len \div g)
group_hi(arr_len, g, i) ==
    IF i = g - 1 THEN arr_len ELSE (i + 1) * (arr_len \div g)

\* the group (0-based) that channel c (1-based) falls in
group_of(arr_len, g, c) ==
    CHOOSE i \in 0..(g - 1) :
        group_lo(arr_len, g, i) < c /\ c <= group_hi(arr_len, g, i)

\* group_err(arr, offset, g): status "ok" with the sum of the absolute
\* errors (err, the mean times len(arr)) and arr_off, or how the call ends:
\*   "ZeroDivisionError"  arr_len // g with g = 0
\*   "RuntimeError"       min() of an empty slice (arr_len < g)
\*   "exit"               optimal_i found no i and called exit()
group_err(arr, offset, g) ==
    LET arr_len == Len(arr)
        none == [status |-> "", err |-> 0, arr_off |-> <<>>]
    IN  IF g = 0 THEN [none EXCEPT !.status = "ZeroDivisionError"]
        ELSE IF g > 1 /\ arr_len \div g = 0
        THEN [none EXCEPT !.status = "RuntimeError"]
        ELSE LET gmin(i) == SeqMin(Slice(arr, group_lo(arr_len, g, i),
                                         group_hi(arr_len, g, i)))
                 gi(i) == optimal_i(gmin(i), offset)
                 off_unit(i) == offset * gi(i)
                 arr_off == [c \in 1..arr_len |->
                                off_unit(group_of(arr_len, g, c))]
                 arr_err == [c \in 1..arr_len |-> Abs(arr[c] - arr_off[c])]
             IN  IF \E i \in 0..(g - 1) : gi(i) = -1
                 THEN [none EXCEPT !.status = "exit"]
                 ELSE [status |-> "ok", err |-> SeqSum(arr_err),
                       arr_off |-> arr_off]

\* The loop `for g in range(1, 5)` of forward_off_hook from group count g
\* on: the state [status, min_err, min_err_g] it ends in.  min_err is kept
\* as a sum over the channels, like err.
RECURSIVE group_search_loop(_, _, _, _, _)
group_search_loop(c_min, unit, g, min_err, min_err_g) ==
    IF g > 4 THEN [status |-> "ok", min_err |-> min_err, min_err_g |-> min_err_g]
    ELSE LET r == group_err(c_min, unit, g)
         IN  IF r.status # "ok"
             THEN [status |-> r.status, min_err |-> min_err,
                   min_err_g |-> min_err_g]
             ELSE IF min_err > r.err
             THEN group_search_loop(c_min, unit, g + 1, r.err, g)
             ELSE group_search_loop(c_min, unit, g + 1, min_err, min_err_g)

\* the search for the number of groups: min_err = 100, min_err_g = 0
group_search(c_min, unit) ==
    group_search_loop(c_min, unit, 1, Hundred * Len(c_min), 0)

\* The offsets a quantizer holds, in units of 1/10000: a 0-dim tensor
\* (kind "scalar", value v), a per-channel tensor (kind "tensor", values ch)
\* or None (a symmetric quantizer).
ScalarOffset(v) == [kind |-> "scalar", v |-> v, ch |-> <<>>]
TensorOffset(ch) == [kind |-> "tensor", v |-> 0, ch |-> ch]
NoOffset == [kind |-> "none", v |-> 0, ch |-> <<>>]

\* forward_off_hook on a module whose a_quant is (symm, off) and whose
\* input has the per-channel minima c_min: how the hook ends and the
\* offset a_quant holds afterwards.
\*   - a symmetric a_quant, or a 3-channel input: nothing is done;
\*   - an offset that is already a per-channel tensor of several values
\*     makes `if min_err > err` of optimal_i raise RuntimeError (the truth
\*     value of a tensor with more than one element is ambiguous);
\*   - otherwise the search runs with unit -off and the offset becomes
\*     -arr_off of the group count found.
forward_off_hook(symm, off, c_min) ==
    IF symm \/ Len(c_min) = 3 THEN [status |-> "ok", offset |-> off, g |-> -1]
    ELSE IF off.kind = "tensor" /\ Len(off.ch) > 1
    THEN [status |-> "RuntimeError", offset |-> off, g |-> -1]
    ELSE LET unit == -(IF off.kind = "tensor" THEN off.ch[1] ELSE off.v)
             s == group_search(c_min, unit)
             r == group_err(c_min, unit, s.min_err_g)
         IN  IF s.status # "ok"
             THEN [status |-> s.status, offset |-> off, g |-> s.min_err_g]
             ELSE IF r.status # "ok"
             THEN [status |-> r.status, offset |-> off, g |-> s.min_err_g]
             ELSE [status |-> "ok",
                   offset |-> TensorOffset([c \in DOMAIN r.arr_off |->
                                               -r.arr_off[c]]),
                   g |-> s.min_err_g]

(***************************************************************************)
(* The model under training: two quantized operator wrappers in forward    *)
(* (and traversal) order.                                                  *)
(*   stem  Q_Conv(c1 = 3, ...).conv: a Q_Conv2d tagged 'relu1' whose       *)
(*         bitwidths are frozen at construction; its input has 3 channels  *)
(*   conv  Q_Conv(c1 = NumCh, ...).conv: a Q_Conv2d tagged 'swish'         *)
(***************************************************************************)
Wrappers == <<"stem", "conv">>
WrapperSet == {Wrappers[i] : i \in DOMAIN Wrappers}
Modules == WrapperSet \cup {"model"}
QKinds == {"a", "w"}

\* the number of input channels of conv
NumCh == 5

\* whether the wrapper is a Q_Conv2d (else a Q_Linear)
IsConv(w) == w \in {"stem", "conv"}

\* Q_Conv.__init__: act_func='relu1' if c1 == 3 else 'swish'
ActTag(w) == IF w = "stem" THEN <<"r", "e", "l", "u", "1">> ELSE Str_swish

\* Q_Conv.__init__: `if c1 == 3 or c1 == 32` freezes both bitwidths
FrozenAtBuild(w) == w = "stem"

\* Q_Conv2d.__init__ / Q_Linear.__init__: the two quantizers
Q_Wrapper(act_func) ==
    LET symm == act_func = NoneTag
    IN  [a |-> Quantizer(symm, act_func), w |-> Quantizer(symm, act_func)]

\* the value of a scalar offset tensor in units of 1/10000 (the tensors
\* built by Quantizer.__init__ have e = -1 or are zero)
FixedOffset(t) ==
    IF t.kind = "None" THEN NoOffset
    ELSE ScalarOffset(RoundHalfEven((t.hi \div 64) * 10000, Pow2(19)))

\* kernel size, channel counts and feature counts of the wrappers
KernelSize(w) == IF w = "stem" THEN 3 ELSE 1
InCh(w) == IF w = "stem" THEN 3 ELSE NumCh
OutCh(w) == IF w = "stem" THEN NumCh ELSE 4

\* the weight tensors (flattened) of the wrappers: the entry of largest
\* magnitude of stem's is negative, conv's holds negative entries only
InitWeight(w) == IF w = "stem" THEN <<-5, 2, 1>> ELSE <<-4, -1, -3>>

NoShape == [set |-> FALSE, in_height |-> 0, in_width |-> 0,
            out_height |-> 0, out_width |-> 0]

\* a variant of forward_hook that writes no metadata
forward_hook_unset(in_shape, out_shape, channel_last) == NoShape

\* forward_hook: the shape metadata read from the input and output shapes
forward_hook(in_shape, out_shape, channel_last) ==
    LET offset == IF channel_last THEN 1 ELSE 2
    IN  [set |-> TRUE,
         in_height |-> in_shape[offset + 1], in_width |-> in_shape[offset + 2],
         out_height |-> out_shape[offset + 1],
         out_width |-> out_shape[offset + 2]]

\* The inputs of a forward pass: the per-channel minima of the input of
\* conv and the spatial size of the feature maps (layout NCHW).
Batch(c_min, hw) == [c_min |-> c_min, hw |-> hw]
NoBatch == Batch(<<>>, 0)
\* every channel at the minimum of swish
GoodBatch == Batch([c \in 1..NumCh |-> -2785], 8)
\* two channels at the minimum of swish, the others at 0
VariedBatch == Batch([c \in 1..NumCh |-> IF c <= 2 THEN -2785 ELSE 0], 8)
\* one channel whose minimum is 1000.0: every group count has a mean error
\* of 100 or more
LargeBatch == Batch([c \in 1..NumCh |-> IF c = NumCh THEN 1000 * 10000 ELSE 0], 8)
\* one channel whose minimum is -2000.0: optimal_i finds no i
FarBatch == Batch([c \in 1..NumCh |-> IF c = 1 THEN -2000 * 10000 ELSE 0], 8)
Batches == {GoodBatch, VariedBatch, LargeBatch, FarBatch}

\* the per-channel minima of the input of wrapper w (those of the 3-channel
\* input of stem are never used: the hook returns before reading them)
InputMin(w, x) == IF w = "conv" THEN x.c_min ELSE [c \in 1..InCh(w) |-> 0]

InShape(w, x) == <<1, InCh(w), x.hw, x.hw>>
OutShape(w, x) == <<1, OutCh(w), x.hw, x.hw>>

\* The forward hooks of a module run in the order they were registered:
\* forward_hook, forward_off_hook of the first pass that registered them,
\* then those of the next.  n forward_off_hooks from offset off on:
RECURSIVE run_off_hooks(_, _, _, _)
run_off_hooks(n, symm, off, c_min) ==
    IF n = 0 THEN [status |-> "ok", offset |-> off, g |-> -1]
    ELSE LET r == forward_off_hook(symm, off, c_min)
         IN  IF r.status # "ok" \/ n = 1 THEN r
             ELSE run_off_hooks(n - 1, symm, r.offset, c_min)

\* model_bops: the summands of total_bops in traversal order, each the
\* factors [macs, w_bit, a_bit] of bops(...) * 2^30 (the product itself
\* exceeds TLC's integers; bitwidths in bit units), or the AttributeError
\* of reading out_height from a convolution that has none.
bops_term(w, shp, rg, logit) ==
    LET k == IF IsConv(w) THEN KernelSize(w) ELSE 1
        c_in == InCh(w)
        c_out == IF IsConv(w) THEN OutCh(w) ELSE 1
        h_out == IF IsConv(w) THEN shp.out_height ELSE 1
        w_out == IF IsConv(w) THEN shp.out_width ELSE OutCh(w)
    IN  [w |-> w,
         macs |-> c_out * (c_in * k * k) * (w_out * h_out),
         w_bit |-> bitwidth(rg["w"], logit["w"]),
         a_bit |-> bitwidth(rg["a"], logit["a"])]

RECURSIVE model_bops_from(_, _, _, _)
model_bops_from(i, shp, rg, logit) ==
    IF i > Len(Wrappers) THEN [status |-> "ok", terms |-> <<>>]
    ELSE LET w == Wrappers[i]
         IN  IF IsConv(w) /\ ~shp[w].set
             THEN [status |-> "AttributeError", terms |-> <<>>]
             ELSE LET rest == model_bops_from(i + 1, shp, rg, logit)
                  IN  [status |-> rest.status,
                       terms |-> IF rest.status = "ok"
                                 THEN <<bops_term(w, shp[w], rg[w], logit[w])>>
                                      \o rest.terms
                                 ELSE <<>>]

model_bops(shp, rg, logit) == model_bops_from(1, shp, rg, logit)

\* print_bitwidth: reads in_height and in_width of every convolution, then
\* calls model_bops; the status it ends with
print_bitwidth(shp, rg, logit) ==
    IF \E w \in WrapperSet : IsConv(w) /\ ~shp[w].set
    THEN "AttributeError"
    ELSE model_bops(shp, rg, logit).status

NoBops == [by |-> "none", status |-> "", terms |-> <<>>]

(***************************************************************************)
(* Specification Spec: the operations on the model.                        *)
(***************************************************************************)
NoPre == [training |-> <<>>, requires_grad |-> <<>>, hooks |-> <<>>]
NoQuants == [w \in WrapperSet |-> [k \in QKinds |-> NoQuant]]

ParkedCtor == [pc |-> "parked"]
ParkedCal == [pc |-> "parked"]
ParkedRng == [pc |-> "parked"]

\* the state after the model has been constructed (modules are constructed
\* in training mode, without hooks and without shape metadata)
InitLife ==
    /\ training = [m \in Modules |-> TRUE]
    /\ requires_grad =
           [w \in WrapperSet |->
               [k \in QKinds |-> Q_Wrapper(ActTag(w))[k].requires_grad
                                 /\ ~FrozenAtBuild(w)]]
    /\ bitlogit = [w \in WrapperSet |->
                      [k \in QKinds |-> Q_Wrapper(ActTag(w))[k]._bitwidth]]
    /\ w_alpha = [w \in WrapperSet |-> Q_Wrapper(ActTag(w)).w._alpha]
    /\ a_offset = [w \in WrapperSet |-> FixedOffset(Q_Wrapper(ActTag(w)).a.offset)]
    /\ shape = [w \in WrapperSet |-> NoShape]
    /\ hooks = [w \in WrapperSet |-> 0]
    /\ weight = [w \in WrapperSet |-> InitWeight(w)]
    /\ sample = NoBatch
    /\ pc = "idle"
    /\ fwd_i = 0
    /\ pre = NoPre
    /\ last_init = "none"
    /\ last_quant = NoQuants
    /\ last_bops = NoBops
    /\ calibrated = FALSE

Init == InitLife /\ ctor = ParkedCtor /\ cal = ParkedCal /\ rng = ParkedRng

\* the most passes whose hooks the model lets pile up on one module
MaxHooks == 2

\* model.train(): nn.Module.train sets the flag of every module
ModelTrain ==
    /\ pc = "idle"
    /\ training' = [m \in Modules |-> TRUE]
    /\ last_bops' = NoBops
    /\ UNCHANGED <<requires_grad, bitlogit, w_alpha, a_offset, shape, hooks,
                   weight, sample, pc, fwd_i, pre, last_init, last_quant,
                   calibrated>>
    /\ UNCHANGED parked

\* model.eval()
ModelEval ==
    /\ pc = "idle"
    /\ training' = [m \in Modules |-> FALSE]
    /\ last_bops' = NoBops
    /\ UNCHANGED <<requires_grad, bitlogit, w_alpha, a_offset, shape, hooks,
                   weight, sample, pc, fwd_i, pre, last_init, last_quant,
                   calibrated>>
    /\ UNCHANGED parked

\* an optimizer step on a bitwidth logit: only a parameter that requires
\* grad is updated
OptimizerStep(w, k, logit) ==
    /\ pc = "idle"
    /\ requires_grad[w][k]
    /\ bitlogit[w][k] # logit
    /\ bitlogit' = [bitlogit EXCEPT ![w][k] = logit]
    /\ last_bops' = NoBops
    /\ UNCHANGED <<training, requires_grad, w_alpha, a_offset, shape, hooks,
                   weight, sample, pc, fwd_i, pre, last_init, last_quant,
                   calibrated>>
    /\ UNCHANGED parked

\* initialize_Q(model, mode) with a mode that is neither 'first' nor
\* 'finetune', or mode 'first' without a sample input: the assert fails
InitializeAssert ==
    /\ pc = "idle"
    /\ last_init' = "raised"
    /\ last_bops' = NoBops
    /\ UNCHANGED <<training, requires_grad, bitlogit, w_alpha, a_offset,
                   shape, hooks, weight, sample, pc, fwd_i, pre, last_quant,
                   calibrated>>
    /\ UNCHANGED parked

\* initialize_Q(model, mode='finetune'): every bitwidth logit is frozen
InitializeFinetune ==
    /\ pc = "idle"
    /\ requires_grad' = [w \in WrapperSet |-> [k \in QKinds |-> FALSE]]
    /\ last_init' = "finetune"
    /\ last_bops' = NoBops
    /\ UNCHANGED <<training, bitlogit, w_alpha, a_offset, shape, hooks,
                   weight, sample, pc, fwd_i, pre, last_quant, calibrated>>
    /\ UNCHANGED parked

\* the registration loop of sample_activation_size: forward_hook and
\* forward_off_hook on every Q_Conv2d
register_hooks(h) == [w \in WrapperSet |-> IF IsConv(w) THEN h[w] + 1 ELSE h[w]]

\* `for hook in hooks: hook.remove()`, `for hook in off_hooks: ...`
remove_hooks(h) == [w \in WrapperSet |-> IF IsConv(w) THEN h[w] - 1 ELSE h[w]]

\* initialize_Q(model, mode='first', sample_input=x) up to the call
\* model(x) of sample_activation_size: the hooks are registered, then
\* model.eval()
InitializeFirst(x) ==
    /\ pc = "idle"
    /\ \A w \in WrapperSet : hooks[w] < MaxHooks
    /\ pre' = [training |-> training, requires_grad |-> requires_grad,
               hooks |-> hooks]
    /\ hooks' = register_hooks(hooks)
    /\ training' = [m \in Modules |-> FALSE]
    /\ sample' = x
    /\ pc' = "calib"
    /\ fwd_i' = 1
    /\ last_bops' = NoBops
    /\ UNCHANGED <<requires_grad, bitlogit, w_alpha, a_offset, shape, weight,
                   last_init, last_quant, calibrated>>
    /\ UNCHANGED parked

\* model(x) of a training or evaluation iteration begins
ForwardBegin(x) ==
    /\ pc = "idle"
    /\ sample' = x
    /\ pc' = "forward"
    /\ fwd_i' = 1
    /\ last_bops' = NoBops
    /\ UNCHANGED <<training, requires_grad, bitlogit, w_alpha, a_offset,
                   shape, hooks, weight, pre, last_init, last_quant,
                   calibrated>>
    /\ UNCHANGED parked

\* how a forward pass that raised leaves the call it ran in: the exception
\* leaves sample_activation_size and initialize_Q at once
Raised ==
    /\ pc' = "idle"
    /\ sample' = NoBatch
    /\ fwd_i' = 0
    /\ pre' = NoPre
    /\ last_init' = IF pc = "calib" THEN "raised" ELSE last_init

\* The forward of the next wrapper: Q_Conv2d.forward calls a_quant and
\* w_quant (Quantizer.forward passes self.training), then the module's
\* forward hooks run: forward_hook writes the shape metadata, the
\* forward_off_hooks search the offsets.
ModuleForward ==
    /\ pc \in {"calib", "forward"}
    /\ fwd_i <= Len(Wrappers)
    /\ LET w == Wrappers[fwd_i]
           r == run_off_hooks(hooks[w], Q_Wrapper(ActTag(w)).a.symm,
                              a_offset[w], InputMin(w, sample))
       IN  /\ shape' = IF hooks[w] > 0
                       THEN [shape EXCEPT ![w] =
                                forward_hook(InShape(w, sample),
                                             OutShape(w, sample), FALSE)]
                       ELSE shape
           /\ a_offset' = [a_offset EXCEPT ![w] = r.offset]
           /\ \/ /\ r.status = "ok"
                 /\ fwd_i' = fwd_i + 1
                 /\ last_quant' =
                        [last_quant EXCEPT ![w] =
                            [k \in QKinds |->
                                _quant(training[w], requires_grad[w][k],
                                       bitlogit[w][k])]]
                 /\ UNCHANGED <<pc, sample, pre, last_init>>
              \/ /\ r.status = "exit"
                 /\ pc' = "exited"
                 /\ last_quant' = NoQuants
                 /\ UNCHANGED <<fwd_i, sample, pre, last_init>>
              \/ /\ r.status \notin {"ok", "exit"}
                 /\ last_quant' = NoQuants
                 /\ Raised
    /\ UNCHANGED <<training, requires_grad, bitlogit, w_alpha, hooks, weight,
                   last_bops, calibrated>>
    /\ UNCHANGED parked

\* the model's own code raises during the forward pass (an error of the
\* wrapped network, outside this file)
ModelRaises ==
    /\ pc \in {"calib", "forward"}
    /\ fwd_i <= Len(Wrappers)
    /\ Raised
    /\ last_quant' = NoQuants
    /\ UNCHANGED <<training, requires_grad, bitlogit, w_alpha, a_offset,
                   shape, hooks, weight, last_bops, calibrated>>
    /\ UNCHANGED parked

\* m.w_quant._alpha.data = m.weight.data.max()
seed_alpha(wt) == SeqMax(wt)

\* The rest of initialize_Q(mode='first') once model(x) has returned: the
\* hooks this pass registered are removed, then every w_quant._alpha is set
\* from the weight tensor.
InitializeFirstEnd ==
    /\ pc = "calib"
    /\ fwd_i > Len(Wrappers)
    /\ hooks' = remove_hooks(hooks)
    /\ w_alpha' = [w \in WrapperSet |-> seed_alpha(weight[w])]
    /\ pc' = "idle"
    /\ sample' = NoBatch
    /\ fwd_i' = 0
    /\ pre' = NoPre
    /\ last_init' = "first-ok"
    /\ last_quant' = NoQuants
    /\ calibrated' = TRUE
    /\ UNCHANGED <<training, requires_grad, bitlogit, a_offset, shape, weight,
                   last_bops>>
    /\ UNCHANGED parked

\* model(x) of an iteration returns
ForwardEnd ==
    /\ pc = "forward"
    /\ fwd_i > Len(Wrappers)
    /\ pc' = "idle"
    /\ sample' = NoBatch
    /\ fwd_i' = 0
    /\ last_quant' = NoQuants
    /\ UNCHANGED <<training, requires_grad, bitlogit, w_alpha, a_offset,
                   shape, hooks, weight, pre, last_init, last_bops,
                   calibrated>>
    /\ UNCHANGED parked

\* bops_loss(model, target_bops, lambda_bops): model_bops, then the smooth
\* L1 loss of the total (the loss value is not modelled)
BopsLoss ==
    /\ pc = "idle"
    /\ last_bops' = [by |-> "bops_loss"] @@ model_bops(shape, requires_grad, bitlogit)
    /\ UNCHANGED <<training, requires_grad, bitlogit, w_alpha, a_offset,
                   shape, hooks, weight, sample, pc, fwd_i, pre, last_init,
                   last_quant, calibrated>>
    /\ UNCHANGED parked

\* print_bitwidth(model)
PrintBitwidth ==
    /\ pc = "idle"
    /\ last_bops' = [by |-> "print_bitwidth",
                     status |-> print_bitwidth(shape, requires_grad, bitlogit),
                     terms |-> <<>>]
    /\ UNCHANGED <<training, requires_grad, bitlogit, w_alpha, a_offset,
                   shape, hooks, weight, sample, pc, fwd_i, pre, last_init,
                   last_quant, calibrated>>
    /\ UNCHANGED parked

Next ==
    \/ ModelTrain
    \/ ModelEval
    \/ \E w \in WrapperSet, k \in QKinds, logit \in Logits : OptimizerStep(w, k, logit)
    \/ InitializeAssert
    \/ InitializeFinetune
    \/ \E x \in Batches : InitializeFirst(x)
    \/ \E x \in Batches : ForwardBegin(x)
    \/ ModuleForward
    \/ ModelRaises
    \/ InitializeFirstEnd
    \/ ForwardEnd
    \/ BopsLoss
    \/ PrintBitwidth

Spec == Init /\ [][Next]_vars

(***************************************************************************)
(* Specification SpecCtor: Quantizer.__init__ statement by statement.      *)
(* ctor.pc is "idle" (no construction running), "entered" (self.symm and   *)
(* self.offset = None are set), "tensor" (self.offset holds the Python     *)
(* number), "params" (self.offset is final), "done" (the constructor has   *)
(* returned the quantizer) or "raised" (it raised ctor.error).             *)
(***************************************************************************)
CtorTags == Tags \cup {NoneTag}

CtorIdle == [pc |-> "idle", symm |-> FALSE, act_func |-> <<>>,
             offset |-> PyNone, _bitwidth |-> 0, requires_grad |-> FALSE,
             _alpha |-> 0, error |-> ""]

InitCtor == InitLife /\ ctor = CtorIdle /\ cal = ParkedCal /\ rng = ParkedRng

\* Quantizer(symm=symm, act_func=act_func) is called: self.symm = symm,
\* self.offset = None
CtorCall(symm, act_func) ==
    /\ ctor.pc \in {"idle", "done", "raised"}
    /\ ctor' = [CtorIdle EXCEPT !.pc = "entered", !.symm = symm,
                                !.act_func = act_func]
    /\ UNCHANGED <<lifeVars, cal, rng>>

\* `if not symm:` with act_func.lower() and the if/elif chain
CtorBranch ==
    /\ ctor.pc = "entered"
    /\ ctor' =
         IF ctor.symm THEN [ctor EXCEPT !.pc = "params"]
         ELSE IF ctor.act_func = NoneTag
         THEN [ctor EXCEPT !.pc = "raised", !.error = "AttributeError"]
         ELSE LET o == offset_of(Lower(ctor.act_func))
              IN  IF o.ok
                  THEN [ctor EXCEPT !.pc = "tensor", !.offset = o.v,
                                    !.act_func = Lower(ctor.act_func)]
                  ELSE [ctor EXCEPT !.pc = "raised",
                                    !.error = "NotImplementedError",
                                    !.act_func = Lower(ctor.act_func)]
    /\ UNCHANGED <<lifeVars, cal, rng>>

\* self.offset = torch.tensor(self.offset, device='cuda')
CtorTensor ==
    /\ ctor.pc = "tensor"
    /\ ctor' = [ctor EXCEPT !.pc = "params", !.offset = torch_tensor(ctor.offset)]
    /\ UNCHANGED <<lifeVars, cal, rng>>

\* self._bitwidth and self._alpha are created; the constructor returns
CtorParams ==
    /\ ctor.pc = "params"
    /\ ctor' = [ctor EXCEPT !.pc = "done", !._bitwidth = InitLogit,
                            !.requires_grad = TRUE,
                            !._alpha = init_alpha_of(ctor.symm, ctor.act_func)]
    /\ UNCHANGED <<lifeVars, cal, rng>>

NextCtor ==
    \/ \E symm \in BOOLEAN, act_func \in CtorTags : CtorCall(symm, act_func)
    \/ CtorBranch
    \/ CtorTensor
    \/ CtorParams

SpecCtor == InitCtor /\ [][NextCtor]_vars

(***************************************************************************)
(* Specification SpecCal: forward_off_hook on one module, one iteration    *)
(* of `for g in range(1, 5)` at a time.  cal.pc is "call" (the hook is     *)
(* about to run on the inputs of the initial state), "search" (the loop is *)
(* at group count cal.g), "write" (the loop is over), "done" (the offset   *)
(* is written), "returned" (the hook returned at once), "raised" or        *)
(* "exited".                                                               *)
(***************************************************************************)
\* the per-channel minima the hook is run on, in units of 1/10000
CalVals == {-6000, -2785, 0, 1000 * 10000}
\* the most input channels
MaxCh == 5
\* the offsets a_quant holds before calibration: relu, swish, hswish
CalOffsets == {0, 2785, 3125}

CalIdle == [pc |-> "idle", symm |-> FALSE, c_min |-> <<>>, off |-> 0, g |-> 0,
            min_err |-> 0, min_err_g |-> 0, error |-> "", offset |-> NoOffset]

CalInputs == UNION {[1..n -> CalVals] : n \in 1..MaxCh}

\* the hook is about to run on a module whose a_quant is (symm, off) and
\* whose input has the per-channel minima c_min
InitCal ==
    /\ InitLife /\ ctor = ParkedCtor /\ rng = ParkedRng
    /\ \E symm \in BOOLEAN, c_min \in CalInputs, off \in CalOffsets :
         cal = [CalIdle EXCEPT !.pc = "call", !.symm = symm, !.c_min = c_min,
                               !.off = off, !.offset = ScalarOffset(off)]

\* the hook is called: the early returns, min_err = 100, min_err_g = 0
CalEnter ==
    /\ cal.pc = "call"
    /\ cal' = IF cal.symm \/ Len(cal.c_min) = 3
              THEN [cal EXCEPT !.pc = "returned"]
              ELSE [cal EXCEPT !.pc = "search", !.g = 1,
                               !.min_err = Hundred * Len(cal.c_min)]
    /\ UNCHANGED <<lifeVars, ctor, rng>>

\* one iteration of `for g in range(1, 5)`
CalIterate ==
    /\ cal.pc = "search"
    /\ cal.g <= 4
    /\ LET r == group_err(cal.c_min, -cal.off, cal.g)
       IN  cal' =
             IF r.status = "exit" THEN [cal EXCEPT !.pc = "exited"]
             ELSE IF r.status # "ok"
             THEN [cal EXCEPT !.pc = "raised", !.error = r.status]
             ELSE IF cal.min_err > r.err
             THEN [cal EXCEPT !.g = cal.g + 1, !.min_err = r.err,
                              !.min_err_g = cal.g]
             ELSE [cal EXCEPT !.g = cal.g + 1]
    /\ UNCHANGED <<lifeVars, ctor, rng>>

\* the loop is over
CalLoopEnd ==
    /\ cal.pc = "search"
    /\ cal.g > 4
    /\ cal' = [cal EXCEPT !.pc = "write"]
    /\ UNCHANGED <<lifeVars, ctor, rng>>

\* `_, arr_off = group_err(c_min, -off, min_err_g)` and the write of
\* module.a_quant.offset
CalWrite ==
    /\ cal.pc = "write"
    /\ LET r == group_err(cal.c_min, -cal.off, cal.min_err_g)
       IN  cal' =
             IF r.status = "exit" THEN [cal EXCEPT !.pc = "exited"]
             ELSE IF r.status # "ok"
             THEN [cal EXCEPT !.pc = "raised", !.error = r.status]
             ELSE [cal EXCEPT !.pc = "done",
                              !.offset = TensorOffset([c \in DOMAIN r.arr_off |->
                                                          -r.arr_off[c]])]
    /\ UNCHANGED <<lifeVars, ctor, rng>>

NextCal ==
    \/ CalEnter
    \/ CalIterate
    \/ CalLoopEnd
    \/ CalWrite

SpecCal == InitCal /\ [][NextCal]_vars

(***************************************************************************)
(* Specification SpecRng: noise_quant.forward and noise_quant.backward of  *)
(* several invocations, and the process-wide random generators.            *)
(*                                                                         *)
(* torch keeps one default generator per device.  A generator is the pair  *)
(* [seed, pos]: the seed it was last seeded with and the number of draws   *)
(* since.  torch.manual_seed(s) seeds the generators of every device.      *)
(* What a generator yields at [seed, pos] is fixed by the library; the     *)
(* model leaves the normal samples that follow a seeding open (rng.randn,  *)
(* chosen in the initial state, one per device) and lets a uniform draw    *)
(* yield any value of Uniforms.                                            *)
(***************************************************************************)
Devices == {"cpu", "cuda"}
Invocations == {1, 2}
\* the values of torch.rand(1)[0], in hundredths: all of [0, 1)
Uniforms == {0, 37, 99}
\* the values of torch.randn(1)[0], in tenths
Normals == {-30, -9, 15, 30}
\* the most draws counted on a generator since it was seeded
MaxPos == 2

\* int(rseed) of torch.manual_seed(rseed): truncation of a value in
\* hundredths
int_of(u) == u \div 100

\* torch.round(z / 2) of a normal sample z in tenths
dither_of(z) == RoundHalfEven(z, 20)

NoInvocation == [st |-> "new", dev |-> "cpu", rseed |-> 0, fwd_src |-> <<>>,
                 fwd_d |-> 0, bwd_src |-> <<>>, bwd_d |-> 0]

InitRng ==
    /\ InitLife /\ ctor = ParkedCtor /\ cal = ParkedCal
    /\ \E t \in [Devices -> Normals] :
         rng = [gen |-> [d \in Devices |-> [seed |-> -1, pos |-> 0]],
                randn |-> t,
                inv |-> [i \in Invocations |-> NoInvocation]]

\* torch.manual_seed(s): every device's generator
manual_seed(gen, s) == [d \in Devices |-> [seed |-> s, pos |-> 0]]

\* a draw on device d: the generator advances
advance(gen, d) ==
    [gen EXCEPT ![d].pos = IF gen[d].pos < MaxPos THEN gen[d].pos + 1 ELSE MaxPos]

\* the device of torch.randn(1) in noise_quant.backward: no device is
\* given, so the default (CPU) generator is drawn from
backward_device(dev) == "cpu"

\* noise_quant.forward(ctx, x, step) with x on device dev: rseed is drawn
\* on dev and saved, the generators are seeded with it, the normal sample
\* is drawn on dev
NoiseForward(i, dev, u) ==
    /\ rng.inv[i].st = "new"
    /\ LET g1 == manual_seed(advance(rng.gen, dev), int_of(u))
       IN  rng' = [rng EXCEPT
                     !.gen = advance(g1, dev),
                     !.inv[i] = [st |-> "fwd", dev |-> dev, rseed |-> u,
                                 fwd_src |-> <<dev, g1[dev].seed, g1[dev].pos>>,
                                 fwd_d |-> dither_of(rng.randn[dev]),
                                 bwd_src |-> <<>>, bwd_d |-> 0]]
    /\ UNCHANGED <<lifeVars, ctor, cal>>

\* noise_quant.backward(ctx, grad_output): the generators are seeded with
\* the saved rseed, the normal sample is drawn by torch.randn(1)
NoiseBackward(i) ==
    /\ rng.inv[i].st = "fwd"
    /\ LET g1 == manual_seed(rng.gen, int_of(rng.inv[i].rseed))
           d == backward_device(rng.inv[i].dev)
       IN  rng' = [rng EXCEPT
                     !.gen = advance(g1, d),
                     !.inv[i].st = "bwd",
                     !.inv[i].bwd_src = <<d, g1[d].seed, g1[d].pos>>,
                     !.inv[i].bwd_d = dither_of(rng.randn[d])]
    /\ UNCHANGED <<lifeVars, ctor, cal>>

\* the autograd graph of the invocation is freed; the quantizer is invoked
\* again in the next iteration
NoiseRelease(i) ==
    /\ rng.inv[i].st = "bwd"
    /\ rng' = [rng EXCEPT !.inv[i] = NoInvocation]
    /\ UNCHANGED <<lifeVars, ctor, cal>>

\* other code of the process draws from a generator (dropout, augmentation)
OtherDraw(dev) ==
    /\ rng.gen[dev].pos < MaxPos
    /\ rng' = [rng EXCEPT !.gen = advance(rng.gen, dev)]
    /\ UNCHANGED <<lifeVars, ctor, cal>>

NextRng ==
    \/ \E i \in Invocations, dev \in Devices, u \in Uniforms : NoiseForward(i, dev, u)
    \/ \E i \in Invocations : NoiseBackward(i)
    \/ \E i \in Invocations : NoiseRelease(i)
    \/ \E dev \in Devices : OtherDraw(dev)

SpecRng == InitRng /\ [][NextRng]_vars

(***************************************************************************)
(* The claims.                                                             *)
(***************************************************************************)
\* the quantize calls the running forward pass has made
Quantized == {<<w, k>> \in WrapperSet \X QKinds : last_quant[w][k].branch # "none"}

SameNumber(a, b) == a.hi = b.hi /\ a.lo = b.lo /\ a.e = b.e

\* C2 as stated (specification SpecCtor).  An asymmetric quantizer tagged
\* 'relu' has offset exactly 0, tagged 'hswish' exactly 0.3125, tagged
\* 'swish' exactly 0.2784645427610738, and a tag the constructor does not
\* recognize raises NotImplementedError and produces no quantizer.
C2_Original ==
    (ctor.pc \in {"done", "raised"} /\ ~ctor.symm /\ ctor.act_func # NoneTag) =>
        /\ ctor.act_func = Str_relu
               => ctor.pc = "done" /\ SameNumber(ctor.offset, PyInt0)
        /\ ctor.act_func = <<"h", "s", "w", "i", "s", "h">>
               => ctor.pc = "done" /\ SameNumber(ctor.offset, Py_hswish)
        /\ ctor.act_func = Str_swish
               => ctor.pc = "done" /\ SameNumber(ctor.offset, Py_swish)
        /\ (~Contains(ctor.act_func, Str_relu) /\ ~Contains(ctor.act_func, Str_swish))
               => ctor.pc = "raised" /\ ctor.error = "NotImplementedError"

\* C2 as amended (specification SpecCtor).  The offset is a tensor: the
\* int64 tensor 0 for 'relu', the float32 tensor 0.3125 for 'hswish', and
\* for 'swish' the float32 tensor of significand 9343720 and exponent -1,
\* the single-precision number nearest to 0.2784645427610738 and not that
\* number.  Construction raises NotImplementedError exactly for the tags
\* that contain neither 'relu' nor 'swish' once lower-cased, and then no
\* quantizer is produced and self.offset is None; a tag that contains one
\* of the two is accepted.  Without a tag it raises AttributeError.
C2_Amended ==
    LET t == ctor.act_func
        known == Contains(t, Str_relu) \/ Contains(t, Str_swish)
    IN  /\ ctor.pc = "entered" => ctor.offset = PyNone
        /\ (ctor.pc \in {"done", "raised"} /\ ~ctor.symm) =>
            /\ t = NoneTag
                   => ctor.pc = "raised" /\ ctor.error = "AttributeError"
            /\ (t # NoneTag /\ ~known)
                   => /\ ctor.pc = "raised"
                      /\ ctor.error = "NotImplementedError"
                      /\ ctor.offset = PyNone
            /\ (t # NoneTag /\ known)
                   => ctor.pc = "done" /\ ctor.offset.kind # "None"
            /\ t = Str_relu
                   => ctor.offset = [kind |-> "tensor_int64", hi |-> 0,
                                     lo |-> 0, e |-> 0]
            /\ t = <<"h", "s", "w", "i", "s", "h">>
                   => ctor.offset = [kind |-> "tensor_float32",
                                     hi |-> 10485760, lo |-> 0, e |-> -1]
            /\ t = Str_swish
                   => /\ ctor.offset = [kind |-> "tensor_float32",
                                        hi |-> 9343720, lo |-> 0, e |-> -1]
                      /\ ~SameNumber(ctor.offset, Py_swish)

\* C2 witness: an asymmetric quantizer tagged 'swish' has been constructed
C2_Witness ==
    ctor.pc = "done" /\ ~ctor.symm /\ ctor.act_func = Str_swish

\* C3 as stated (specification Spec).  When initialize_Q(mode='first')
\* returns, the training flag of every module is what it was when the call
\* was made, and so are the hooks and the requires_grad flags.
C3_Original ==
    [][(pc = "calib" /\ pc' = "idle" /\ last_init' = "first-ok") =>
          /\ training' = pre.training
          /\ requires_grad' = pre.requires_grad
          /\ hooks' = pre.hooks
          /\ bitlogit' = bitlogit
          /\ weight' = weight]_vars

\* C4 as stated (specification Spec).  Outside a running calibration pass
\* no forward hook of sample_activation_size is registered on any module.
C4_Original ==
    pc # "calib" => \A w \in WrapperSet : hooks[w] = 0

\* the sum of the absolute errors of group count g on the inputs of cal
CalErr(g) == group_err(cal.c_min, -cal.off, g).err

\* C5 as stated (specification SpecCal).  On an asymmetric quantizer whose
\* input does not have 3 channels the search raises nothing; when the loop
\* over g is over, the group count found is one of 1..4, its mean absolute
\* error is the least of the four, no smaller g has the same error, and the
\* offsets written are those of that g.
C5_Original ==
    /\ cal.pc # "raised"
    /\ cal.pc = "write" =>
          /\ cal.min_err_g \in 1..4
          /\ \A h \in 1..4 : CalErr(cal.min_err_g) <= CalErr(h)
          /\ \A h \in 1..4 : CalErr(h) = CalErr(cal.min_err_g) => cal.min_err_g <= h
    /\ cal.pc = "done" =>
          /\ cal.min_err_g \in 1..4
          /\ cal.offset.ch =
                 [c \in DOMAIN cal.c_min |->
                     -group_err(cal.c_min, -cal.off, cal.min_err_g).arr_off[c]]

\* C6 as stated (specification Spec).  Every summand of model_bops, as
\* bops_loss computes it, uses the mapped value 2.0 + sigmoid(logit) * 6.5
\* of the weight and of the activation bitwidth logit, not rounded.
C6_Original ==
    (last_bops.by = "bops_loss" /\ last_bops.status = "ok") =>
        \A i \in DOMAIN last_bops.terms :
            LET t == last_bops.terms[i]
            IN  /\ t.w_bit = 2 * BitUnit + 13 * Sigmoid(bitlogit[t.w]["w"])
                /\ t.a_bit = 2 * BitUnit + 13 * Sigmoid(bitlogit[t.w]["a"])

\* the bitwidth C6 as amended expects of a quantizer, in bit units
C6_Expected(rg, logit) ==
    LET mapped == 2 * BitUnit + 13 * Sigmoid(logit)
    IN  IF rg THEN mapped ELSE RoundHalfEven(mapped, BitUnit) * BitUnit

\* C6 as amended (specification Spec).  Every summand of model_bops uses,
\* for a quantizer whose bitwidth logit requires grad, the mapped value
\* 2.0 + sigmoid(logit) * 6.5, not rounded, and for a quantizer whose
\* bitwidth is frozen that value rounded to the nearest integer (ties to
\* even); there is one summand per wrapper.
C6_Amended ==
    (last_bops.by = "bops_loss" /\ last_bops.status = "ok") =>
        /\ Len(last_bops.terms) = Len(Wrappers)
        /\ \A i \in DOMAIN last_bops.terms :
            LET t == last_bops.terms[i]
            IN  /\ t.w = Wrappers[i]
                /\ t.w_bit = C6_Expected(requires_grad[t.w]["w"], bitlogit[t.w]["w"])
                /\ t.a_bit = C6_Expected(requires_grad[t.w]["a"], bitlogit[t.w]["a"])

\* C6 witness: bops_loss has been computed on a model with a frozen
\* wrapper (stem) and a trainable one whose logit is not the initial one
C6_Witness ==
    /\ last_bops.by = "bops_loss"
    /\ last_bops.status = "ok"
    /\ ~requires_grad["stem"]["w"]
    /\ requires_grad["conv"]["w"]
    /\ bitlogit["conv"]["w"] = 0

\* C7 (specification Spec).  For every bitwidth logit a quantizer holds,
\* the mapped bitwidth lies in [2.0, 8.5], the bitwidth() of the frozen
\* quantizer is one of 2..8, and every quantize call has used a rounded
\* bitwidth in 2..8 and the level count 2^bits - 1, which is at least 3.
C7_Range ==
    /\ \A w \in WrapperSet, k \in QKinds :
          /\ 2 * BitUnit <= logit2bit(bitlogit[w][k])
          /\ 2 * logit2bit(bitlogit[w][k]) <= 17 * BitUnit
          /\ \E b \in 2..8 : bitwidth(FALSE, bitlogit[w][k]) = b * BitUnit
          /\ \E b \in 2..8 :
                hard_quant(bitwidth(requires_grad[w][k], bitlogit[w][k]))
                    = b * BitUnit
    /\ \A q \in Quantized :
          /\ last_quant[q[1]][q[2]].bits \in 2..8
          /\ last_quant[q[1]][q[2]].exact
          /\ last_quant[q[1]][q[2]].n_lv = Pow2(last_quant[q[1]][q[2]].bits) - 1
          /\ last_quant[q[1]][q[2]].n_lv >= 3

\* C7 witness: a quantizer whose logit saturates the sigmoid to 1 has
\* quantized with 8 bits, and one whose logit saturates it to 0 with 2
C7_Witness ==
    /\ bitlogit["conv"]["a"] = 1000
    /\ last_quant["conv"]["a"].bits = 8
    /\ last_quant["conv"]["a"].n_lv = 255
    /\ bitlogit["conv"]["w"] = -1000
    /\ last_quant["conv"]["w"].bits = 2

\* the largest absolute value of a tensor
MaxMagnitude(wt) == SeqMax([i \in DOMAIN wt |-> Abs(wt[i])])

\* C8 as stated (specification Spec).  Once initialize_Q(mode='first') has
\* returned, the scale of every weight quantizer is the one seeded from
\* the largest absolute value of the wrapper's weight tensor.
C8_Original ==
    calibrated =>
        \A w \in WrapperSet : alpha(w_alpha[w]) = alpha(MaxMagnitude(weight[w]))

\* C9 as stated (specification SpecRng).  The backward pass of an
\* invocation consumes the random state its forward pass consumed (the same
\* generator, seeded alike, at the same position) and redraws the dither
\* its forward pass drew.
C9_Original ==
    \A i \in Invocations :
        rng.inv[i].st = "bwd" =>
            /\ rng.inv[i].bwd_src = rng.inv[i].fwd_src
            /\ rng.inv[i].bwd_d = rng.inv[i].fwd_d

\* C10 as stated (specification Spec).  bops_loss evaluated after
\* initialize_Q has returned in either mode finds the shape metadata on
\* every quantized convolution.
C10_Original ==
    (last_bops.by = "bops_loss" /\ last_init \in {"first-ok", "finetune"}) =>
        last_bops.status = "ok"

\* C10 as amended (specification Spec).  Once initialize_Q(mode='first')
\* has returned, every quantized convolution carries the shape metadata,
\* written by forward_hook from the shapes of the sample; bops_loss and
\* print_bitwidth succeed exactly when every quantized convolution carries
\* it and raise AttributeError otherwise; initialize_Q(mode='finetune')
\* writes none: while no pass has completed and no hook is registered, no
\* convolution carries metadata.
C10_Amended ==
    /\ calibrated =>
          \A w \in WrapperSet :
              IsConv(w) => /\ shape[w].set
                           /\ shape[w].out_height > 0 /\ shape[w].out_width > 0
                           /\ shape[w].in_height > 0 /\ shape[w].in_width > 0
    /\ last_bops.by # "none" =>
          /\ last_bops.status \in {"ok", "AttributeError"}
          /\ last_bops.status = "ok"
                 <=> \A w \in WrapperSet : IsConv(w) => shape[w].set
    /\ (~calibrated /\ \A w \in WrapperSet : hooks[w] = 0) =>
          \A w \in WrapperSet : ~shape[w].set

\* C10 witness: bops_loss has succeeded after initialize_Q(mode='first')
\* returned and initialize_Q(mode='finetune') followed
C10_Witness ==
    /\ calibrated
    /\ last_init = "finetune"
    /\ last_bops.by = "bops_loss"
    /\ last_bops.status = "ok"
=============================================================================
